---- MODULE Spec2Model ----
(***************************************************************************)
(* Model of the NEXORA SYNERGY API (src/main.py, src/schemas.py): the      *)
(* route handlers over a document store.  The store client (database.py:   *)
(* db, get_documents, create_document) is not part of the sources and is   *)
(* modelled from the specification's description of it.                    *)
(***************************************************************************)
EXTENDS Integers, Sequences, FiniteSets, TLC

\* ------------------------------------------------------------------ bounds
MaxDocs == 2          \* records provisioned out-of-band in one content collection
MaxWrites == 2        \* records inserted through the write endpoints
MaxCollections == 11  \* collection names the store may list
MaxErrLen == 81       \* length of the longest exception text
MaxInflight == 2      \* requests being handled at the same time

\* ------------------------------------------------------- program constants
CollectionsLimit == 10   \* collections[:10]
ErrLimit == 80           \* str(e)[:80]

None == "None"
NoId == -1               \* d.get("_id") of a record that has no "_id"

\* --------------------------------------------------------------- strings
\* Identifiers, e-mail addresses and exception texts are sequences of
\* one-character strings, so that str(), truncation and e-mail validation are
\* computed and not assumed.
DigitChar(d) == <<"0", "1", "2", "3", "4", "5", "6", "7", "8", "9">>[d + 1]

RECURSIVE Digits(_)
Digits(k) == IF k < 10 THEN <<DigitChar(k)>>
             ELSE Append(Digits(k \div 10), DigitChar(k % 10))

\* str(x) of an ObjectId (a number here) or of None
str(v) == IF v = NoId THEN <<"N", "o", "n", "e">> ELSE Digits(v)

\* s[:n]
Take(s, n) == SubSeq(s, 1, IF Len(s) < n THEN Len(s) ELSE n)

ErrText(n) == [i \in 1..n |-> "e"]
ErrorTexts == {ErrText(3), ErrText(MaxErrLen)}
NotAvailable == <<"n", "o", "d", "b">>   \* the text raised when db is None

\* ------------------------------------------------------------- schemas
Count(s, c) == Cardinality({i \in 1..Len(s) : s[i] = c})
IndexOf(s, c) == CHOOSE i \in 1..Len(s) : s[i] = c /\ \A j \in 1..(i - 1) : s[j] # c
Lower(c) == IF c = "B" THEN "b" ELSE c

\* pydantic EmailStr: one "@", a non-empty local part, a domain holding a dot
\* that is neither its first nor its last character
EmailStr(s) ==
    /\ Count(s, "@") = 1
    /\ LET at == IndexOf(s, "@")
           dom == SubSeq(s, at + 1, Len(s))
       IN /\ at > 1
          /\ Len(dom) >= 3
          /\ Count(dom, ".") >= 1
          /\ dom[1] # "." /\ dom[Len(dom)] # "."
          /\ \A i \in 1..(Len(dom) - 1) : ~(dom[i] = "." /\ dom[i + 1] = ".")

\* the value EmailStr validation hands to the handler: the domain lower-cased
NormalizeEmail(s) ==
    LET at == IndexOf(s, "@")
    IN [i \in 1..Len(s) |-> IF i > at THEN Lower(s[i]) ELSE s[i]]

Has(body, f) == f \in DOMAIN body

\* class NewsletterSubscriber(BaseModel): email: EmailStr
NewsletterSubscriber(body) == Has(body, "email") /\ EmailStr(body["email"])

\* mutant: email declared as a plain str holding an "@"
ContactMessage_plain_email(body) ==
    /\ Has(body, "name") /\ Has(body, "message")
    /\ Has(body, "email") /\ Count(body["email"], "@") = 1

\* class ContactMessage(BaseModel): name, email: EmailStr, phone?, message
ContactMessage(body) ==
    /\ Has(body, "name") /\ Has(body, "message")
    /\ Has(body, "email") /\ EmailStr(body["email"])

\* model_dump() of the validated models
DumpNewsletter(body) == [email |-> NormalizeEmail(body["email"])]
DumpContact(body) ==
    [name |-> body["name"], email |-> NormalizeEmail(body["email"]),
     phone |-> IF Has(body, "phone") THEN body["phone"] ELSE None,
     message |-> body["message"]]

\* Service(...), Project(...), BlogPost(...), Testimonial(...) with their defaults
Service(icon, title, slug, summary, featured) ==
    [icon |-> icon, title |-> title, slug |-> slug, summary |-> summary,
     content |-> None, featured |-> featured]
Project(title, slug, summary, tags) ==
    [title |-> title, slug |-> slug, summary |-> summary, content |-> None,
     images |-> None, tags |-> tags, metrics |-> None]
BlogPost(title, slug, author, date, tags, excerpt, content) ==
    [title |-> title, slug |-> slug, author |-> author, date |-> date,
     tags |-> tags, excerpt |-> excerpt, coverImage |-> None, content |-> content]
Testimonial(name, role, company, quote) ==
    [name |-> name, role |-> role, company |-> company, quote |-> quote,
     avatar |-> None]

\* ------------------------------------------------------------ seed data
SeedServices == <<
    Service("Code", "Software & Web Development", "software-web-development",
            "Custom applications, modern web platforms, and scalable architectures.", TRUE),
    Service("Shield", "Cybersecurity & Network Solutions", "cybersecurity-network",
            "Proactive defense, audits, and zero-trust strategies for resilient systems.", FALSE),
    Service("GitBranch", "Digital Transformation & IT Consultancy", "digital-transformation",
            "Roadmaps, process automation, and change management for enterprise evolution.", FALSE),
    Service("Cloud", "Cloud Services", "cloud-services",
            "Cloud-native design, infrastructure as code, and cost optimization.", FALSE),
    Service("LineChart", "Data & Analytics", "data-analytics",
            "Dashboards, ML pipelines, and insights that move the business.", FALSE) >>

SeedProjects == <<
    Project("Nebula Commerce Platform", "nebula-commerce",
            "Composable eCommerce with sub-second TTFB and 99.99% uptime.",
            <<"Next.js", "Edge", "MongoDB">>),
    Project("Aegis SOC Automation", "aegis-soc",
            "SOAR workflows cutting incident response time by 68%.",
            <<"Python", "SIEM", "Playbooks">>),
    Project("Stratus Cloud Migration", "stratus-migration",
            "Multi-cloud migration with 32% cost reduction.",
            <<"Kubernetes", "IaC", "GCP/AWS">>) >>

SeedPosts == <<
    BlogPost("Designing for Velocity and Safety", "velocity-and-safety", "NEXORA Team",
             "import-time", <<"Architecture", "DX">>,
             "How we deliver fast without compromising security.",
             "We balance platform engineering, guardrails, and automation to ship safely.") >>

SampleTestimonials == <<
    Testimonial("A. Rivera", "CTO", "Orbit Labs",
                "NEXORA accelerated our roadmap and hardened our security posture."),
    Testimonial("M. Chen", "Head of Data", "QuantumX",
                "From pipeline reliability to dashboards, they delivered.") >>

\* ------------------------------------------------------------- the store
ContentCollections == {"service", "project", "blogpost", "testimonial"}
WriteCollections == {"contactmessage", "newslettersubscriber"}
Collections == ContentCollections \cup WriteCollections

CollBase(c) == CASE c = "service" -> 10 [] c = "project" -> 20
                 [] c = "blogpost" -> 30 [] OTHER -> 40

\* the i-th record provisioned out-of-band in a content collection; every
\* second one carries a field of its own called "id"
StoredDoc(c, i) ==
    IF i % 2 = 0
    THEN [_id |-> CollBase(c) + i, title |-> c, slug |-> Digits(i), id |-> <<"x">>]
    ELSE [_id |-> CollBase(c) + i, title |-> c, slug |-> Digits(i)]

Provisioned(c, n) == [i \in 1..n |-> StoredDoc(c, i)]

VARIABLES
    db,                 \* the store handle: "None" or "handle"
    store,              \* collection name -> sequence of records
    nextId,             \* the next key the store generates
    DEFAULT_SERVICES, DEFAULT_PROJECTS, DEFAULT_POSTS,   \* module-level seed lists
    request,            \* the request handled last, with what its store calls did
    response,           \* the response to it
    before,             \* the store's contents when that request arrived
    store0,             \* the store's contents at process start
    acked,              \* the writes answered {ok: true, id}
    inflight            \* concurrent requests: request id -> its progress

vars == <<db, store, nextId, DEFAULT_SERVICES, DEFAULT_PROJECTS, DEFAULT_POSTS,
          request, response, before, store0, acked, inflight>>


\* ------------------------------------------------- the store client
\* What a store call may do: succeed, or raise with some text.
Outcomes == {[ok |-> TRUE, msg |-> <<>>]} \cup {[ok |-> FALSE, msg |-> m] : m \in ErrorTexts}

Written(st) == Len(st["contactmessage"]) + Len(st["newslettersubscriber"])

\* get_documents(collection_name): every record of the collection, in the
\* store's order, as fresh dicts; raises when there is no handle or the query fails
get_documents(st, coll, outcome) ==
    IF db = "None" THEN [raised |-> TRUE, msg |-> NotAvailable, docs |-> <<>>]
    ELSE IF ~outcome.ok THEN [raised |-> TRUE, msg |-> outcome.msg, docs |-> <<>>]
    ELSE [raised |-> FALSE, msg |-> <<>>, docs |-> st[coll]]

\* create_document(collection_name, data): inserts the dumped model under a
\* generated key and returns str(key); raises, inserting nothing, when there is
\* no handle or the insert fails
create_document(st, nid, coll, data, outcome) ==
    IF db = "None"
    THEN [raised |-> TRUE, msg |-> NotAvailable, id |-> <<>>, store |-> st, nextId |-> nid]
    ELSE IF ~outcome.ok
    THEN [raised |-> TRUE, msg |-> outcome.msg, id |-> <<>>, store |-> st, nextId |-> nid]
    ELSE [raised |-> FALSE, msg |-> <<>>, id |-> str(nid),
          store |-> [st EXCEPT ![coll] = Append(@, data @@ [_id |-> nid])],
          nextId |-> nid + 1]

\* ---------------------------------------------------------- handlers
model_dump(m) == [f \in DOMAIN m |-> m[f]]
DumpAll(models) == [i \in 1..Len(models) |-> model_dump(models[i])]

get_id(d) == IF "_id" \in DOMAIN d THEN d["_id"] ELSE NoId

\* mutant: the internal key is copied but not removed
convert_doc_keeps_key(d) ==
    [f \in DOMAIN d \cup {"id"} |-> IF f = "id" THEN str(get_id(d)) ELSE d[f]]

\* d["id"] = str(d.get("_id")); d.pop("_id", None)
convert_doc(d) ==
    [f \in (DOMAIN d \ {"_id"}) \cup {"id"} |->
        IF f = "id" THEN str(get_id(d)) ELSE d[f]]

\* for d in docs: ...
convert_docs(docs) == [i \in 1..Len(docs) |-> convert_doc(docs[i])]

\* mutant: no except clause, the fetch's exception reaches the caller
list_response_propagates(res, fallback) ==
    IF res.raised THEN [status |-> 500, body |-> [detail |-> res.msg]]
    ELSE IF Len(res.docs) > 0
    THEN [status |-> 200, body |-> [items |-> convert_docs(res.docs)]]
    ELSE [status |-> 200, body |-> [items |-> fallback]]

\* the body of a read handler after the fetch: try / if docs / except: pass / fallback
list_response(res, fallback) ==
    IF ~res.raised /\ Len(res.docs) > 0
    THEN [status |-> 200, body |-> [items |-> convert_docs(res.docs)]]
    ELSE [status |-> 200, body |-> [items |-> fallback]]

\* mutant: the insert's exception is swallowed and the request acknowledged
write_response_swallows(res) ==
    [status |-> 200, body |-> [ok |-> TRUE, id |-> res.id]]

\* mutant: the failure is reported without its message text
write_response_generic(res) ==
    IF res.raised
    THEN [status |-> 500, body |-> [detail |-> <<>>]]
    ELSE [status |-> 200, body |-> [ok |-> TRUE, id |-> res.id]]

\* the body of a write handler after the insert: return ok / raise HTTPException(500)
write_response(res) ==
    IF res.raised
    THEN [status |-> 500, body |-> [detail |-> res.msg]]
    ELSE [status |-> 200, body |-> [ok |-> TRUE, id |-> res.id]]

\* the framework's answer to a body the schema rejects
validation_error == [status |-> 422, body |-> [detail |-> "validation"]]

\* what reading db.name and listing the collections may do
NameReads == {[raised |-> FALSE, value |-> "appdb", msg |-> <<>>],
              [raised |-> FALSE, value |-> None, msg |-> <<>>]}
             \cup {[raised |-> TRUE, value |-> None, msg |-> m] : m \in ErrorTexts}
ListReads == {[raised |-> FALSE, names |-> [i \in 1..n |-> i], msg |-> <<>>] :
                 n \in {0, 3, CollectionsLimit, MaxCollections}}
             \cup {[raised |-> TRUE, names |-> <<>>, msg |-> m] : m \in ErrorTexts}

Diag(database, detail, url, name, status, colls) ==
    [status |-> 200,
     body |-> [backend |-> "Running", database |-> database, error |-> detail,
               database_url |-> url, database_name |-> name,
               connection_status |-> status, collections |-> colls]]

\* mutant: no outer try, an exception reading db.name reaches the caller
test_response_no_outer_try(url, name, list) ==
    LET urlText == IF url THEN "Set" ELSE "Not Set"
        nameText == IF name.value = None THEN "Unknown" ELSE name.value
    IN IF db = "None"
       THEN Diag("Available but not initialized", <<>>, None, None, "Not Connected", <<>>)
       ELSE IF name.raised
       THEN [status |-> 500, body |-> [detail |-> name.msg]]
       ELSE IF list.raised
       THEN Diag("Connected but Error", Take(list.msg, ErrLimit), urlText, nameText,
                 "Connected", <<>>)
       ELSE Diag("Connected & Working", <<>>, urlText, nameText, "Connected",
                 Take(list.names, CollectionsLimit))

\* mutant: no inner try, a failure listing the collections is caught by the
\* outer except only
test_response_no_inner_try(url, name, list) ==
    LET urlText == IF url THEN "Set" ELSE "Not Set"
        nameText == IF name.value = None THEN "Unknown" ELSE name.value
    IN IF db = "None"
       THEN Diag("Available but not initialized", <<>>, None, None, "Not Connected", <<>>)
       ELSE IF name.raised
       THEN Diag("Error", Take(name.msg, ErrLimit), urlText, None, "Not Connected", <<>>)
       ELSE IF list.raised
       THEN Diag("Error", Take(list.msg, ErrLimit), urlText, nameText, "Connected", <<>>)
       ELSE Diag("Connected & Working", <<>>, urlText, nameText, "Connected",
                 Take(list.names, CollectionsLimit))

\* test_database(): the response built from what the sub-checks did
test_response(url, name, list) ==
    LET urlText == IF url THEN "Set" ELSE "Not Set"
        nameText == IF name.value = None THEN "Unknown" ELSE name.value
    IN IF db = "None"
       THEN Diag("Available but not initialized", <<>>, None, None, "Not Connected", <<>>)
       ELSE IF name.raised
       THEN Diag("Error", Take(name.msg, ErrLimit), urlText, None, "Not Connected", <<>>)
       ELSE IF list.raised
       THEN Diag("Connected but Error", Take(list.msg, ErrLimit), urlText, nameText,
                 "Connected", <<>>)
       ELSE Diag("Connected & Working", <<>>, urlText, nameText, "Connected",
                 Take(list.names, CollectionsLimit))


\* ------------------------------------------------------- request bodies
Email1 == <<"a", "@", "b", ".", "c">>
Email2 == <<"a", "@", "B", ".", "c">>          \* upper-case domain
NoAt == <<"a", "b", ".", "c">>
NoDot == <<"a", "@", "b">>
NoLocal == <<"@", "b", ".", "c">>

ContactBodies ==
    {[name |-> "Ann", email |-> Email1, message |-> "hi"],
     [name |-> "Bob", email |-> Email2, phone |-> "555", message |-> "yo"],
     [name |-> "Ann", email |-> NoAt, message |-> "hi"],
     [name |-> "Ann", email |-> NoDot, message |-> "hi"],
     [name |-> "Ann", email |-> Email1],
     [email |-> Email1, message |-> "hi"],
     [name |-> "Ann", message |-> "hi"]}

NewsletterBodies ==
    {[email |-> Email1], [email |-> Email2], [email |-> NoAt],
     [email |-> NoLocal], [name |-> "Ann"]}

\* ------------------------------------------------------------ initial state
ReqIds == 1..MaxInflight
Idle == [pc |-> "idle"]

\* How many records each content collection holds at process start: nothing
\* anywhere (a fresh store), or different numbers in the four collections,
\* every collection holding every number from 0 to MaxDocs in some start.
ContentCounts ==
    {[c \in ContentCollections |-> 0]} \cup
    {[c \in ContentCollections |-> (k + (CollBase(c) \div 10)) % (MaxDocs + 1)] :
        k \in 0..MaxDocs}

Init ==
    /\ db \in {"None", "handle"}
    /\ \E n \in ContentCounts :
          store = [c \in Collections |->
                      IF c \in ContentCollections THEN Provisioned(c, n[c]) ELSE <<>>]
    /\ store0 = store
    /\ before = store
    /\ nextId = 1
    /\ DEFAULT_SERVICES = SeedServices
    /\ DEFAULT_PROJECTS = SeedProjects
    /\ DEFAULT_POSTS = SeedPosts
    /\ request = [endpoint |-> "none"]
    /\ response = [status |-> 0]
    /\ acked = {}
    /\ inflight = [r \in ReqIds |-> Idle]

\* ------------------------------------------------- handlers, one request at a time
\* what a handler leaves alone whatever it does
Answer(req, resp) ==
    /\ request' = req
    /\ response' = resp
    /\ before' = store
    /\ UNCHANGED <<db, DEFAULT_SERVICES, DEFAULT_PROJECTS, DEFAULT_POSTS, store0, inflight>>

\* mutant: the records converted in place are the store's own
Read_in_place(endpoint, coll, fallback) ==
    \E outcome \in Outcomes :
        LET res == get_documents(store, coll, outcome)
        IN /\ Answer([endpoint |-> endpoint, coll |-> coll, calls |-> 1, res |-> res],
                     list_response(res, fallback))
           /\ store' = [store EXCEPT ![coll] = convert_docs(res.docs)]
           /\ UNCHANGED <<nextId, acked>>

\* a read handler: one fetch, then the response
Read(endpoint, coll, fallback) ==
    \E outcome \in Outcomes :
        LET res == get_documents(store, coll, outcome)
        IN /\ Answer([endpoint |-> endpoint, coll |-> coll, calls |-> 1, res |-> res],
                     list_response(res, fallback))
           /\ UNCHANGED <<store, nextId, acked>>

\* a write handler: validation by the schema, then one insert, then the response
Write(endpoint, coll, body, valid, data) ==
    IF ~valid
    THEN /\ Answer([endpoint |-> endpoint, coll |-> coll, body |-> body, calls |-> 0],
                   validation_error)
         /\ UNCHANGED <<store, nextId, acked>>
    ELSE \E outcome \in Outcomes :
            LET res == create_document(store, nextId, coll, data, outcome)
                resp == write_response(res)
            IN /\ Written(res.store) <= MaxWrites
               /\ Answer([endpoint |-> endpoint, coll |-> coll, body |-> body,
                          calls |-> 1, res |-> [raised |-> res.raised, msg |-> res.msg]],
                         resp)
               /\ store' = res.store
               /\ nextId' = res.nextId
               /\ acked' = IF resp.status = 200
                           THEN acked \cup {[coll |-> coll, email |-> body["email"],
                                             id |-> resp.body.id]}
                           ELSE acked

read_root ==
    /\ Answer([endpoint |-> "/"], [status |-> 200,
              body |-> [message |-> "NEXORA SYNERGY API Running"]])
    /\ UNCHANGED <<store, nextId, acked>>

hello ==
    /\ Answer([endpoint |-> "/api/hello"], [status |-> 200,
              body |-> [message |-> "Hello from the NEXORA SYNERGY backend!"]])
    /\ UNCHANGED <<store, nextId, acked>>

test_database ==
    \E url \in BOOLEAN, name \in NameReads, list \in ListReads :
        /\ Answer([endpoint |-> "/test", url |-> url, name |-> name, list |-> list],
                  test_response(url, name, list))
        /\ UNCHANGED <<store, nextId, acked>>

\* mutant: the fallback of another content kind
list_services_wrong_seed ==
    Read("/api/content/services", "service", DumpAll(DEFAULT_PROJECTS))

list_services ==
    Read("/api/content/services", "service", DumpAll(DEFAULT_SERVICES))

list_projects ==
    Read("/api/content/projects", "project", DumpAll(DEFAULT_PROJECTS))

list_blog_posts ==
    Read("/api/blog", "blogpost", DumpAll(DEFAULT_POSTS))

list_testimonials ==
    Read("/api/testimonials", "testimonial", DumpAll(SampleTestimonials))

create_contact ==
    \E msg \in ContactBodies :
        Write("/api/contact", "contactmessage", msg, ContactMessage(msg),
              DumpContact(msg))

subscribe ==
    \E payload \in NewsletterBodies :
        Write("/api/newsletter", "newslettersubscriber", payload,
              NewsletterSubscriber(payload), DumpNewsletter(payload))

Next ==
    \/ read_root
    \/ hello
    \/ test_database
    \/ list_services
    \/ list_projects
    \/ list_blog_posts
    \/ list_testimonials
    \/ create_contact
    \/ subscribe

Spec == Init /\ [][Next]_vars


\* ------------------------------------------------- handlers, interleaved
\* The host dispatches requests concurrently.  A handler touches nothing shared
\* but the store, and touches it in its one store call, so a request is three
\* steps: it arrives (and is validated), it calls the store, it responds.
ReadEndpoints ==
    {[endpoint |-> "/api/content/services", coll |-> "service"],
     [endpoint |-> "/api/content/projects", coll |-> "project"],
     [endpoint |-> "/api/blog", coll |-> "blogpost"],
     [endpoint |-> "/api/testimonials", coll |-> "testimonial"]}

Fallback(coll) ==
    CASE coll = "service" -> DumpAll(DEFAULT_SERVICES)
      [] coll = "project" -> DumpAll(DEFAULT_PROJECTS)
      [] coll = "blogpost" -> DumpAll(DEFAULT_POSTS)
      [] OTHER -> DumpAll(SampleTestimonials)

\* the bodies posted while other requests are in flight
ConcContactBodies ==
    {[name |-> "Ann", email |-> Email1, message |-> "hi"],
     [name |-> "Ann", email |-> NoAt, message |-> "hi"]}
ConcNewsletterBodies == {[email |-> Email2], [name |-> "Ann"]}

ReadRequest(e) ==
    [pc |-> "ready", kind |-> "read", endpoint |-> e.endpoint, coll |-> e.coll,
     valid |-> TRUE, calls |-> 0]

WriteRequest(endpoint, coll, valid, data) ==
    IF valid
    THEN [pc |-> "ready", kind |-> "write", endpoint |-> endpoint, coll |-> coll,
          valid |-> TRUE, data |-> data, calls |-> 0]
    ELSE [pc |-> "done", kind |-> "write", endpoint |-> endpoint, coll |-> coll,
          valid |-> FALSE, calls |-> 0, resp |-> validation_error]

\* mutant: a failed store call is tried again
call_step_retries(q, outcome) ==
    LET res == IF q.kind = "read"
               THEN get_documents(store, q.coll, outcome)
               ELSE create_document(store, nextId, q.coll, q.data, outcome)
    IN [req |-> [q EXCEPT !.pc = IF res.raised /\ q.calls = 0 THEN "ready" ELSE "called",
                          !.calls = @ + 1] @@
                [res |-> res, outcome |-> outcome, snap |-> store, snapId |-> nextId],
        store |-> IF q.kind = "read" THEN store ELSE res.store,
        nextId |-> IF q.kind = "read" THEN nextId ELSE res.nextId]

\* the handler's store call: docs = get_documents(..) / doc_id = create_document(..)
call_step(q, outcome) ==
    LET res == IF q.kind = "read"
               THEN get_documents(store, q.coll, outcome)
               ELSE create_document(store, nextId, q.coll, q.data, outcome)
    IN [req |-> [q EXCEPT !.pc = "called", !.calls = @ + 1] @@
                [res |-> res, outcome |-> outcome, snap |-> store, snapId |-> nextId],
        store |-> IF q.kind = "read" THEN store ELSE res.store,
        nextId |-> IF q.kind = "read" THEN nextId ELSE res.nextId]

\* the rest of the handler: the response from what the store call returned
respond_step(q) ==
    [q EXCEPT !.pc = "done"] @@
    [resp |-> IF q.kind = "read" THEN list_response(q.res, Fallback(q.coll))
              ELSE write_response(q.res)]

Arrive(r) ==
    /\ inflight[r].pc = "idle"
    /\ \/ \E e \in ReadEndpoints :
             inflight' = [inflight EXCEPT ![r] = ReadRequest(e)]
       \/ \E msg \in ConcContactBodies :
             inflight' = [inflight EXCEPT ![r] =
                 WriteRequest("/api/contact", "contactmessage", ContactMessage(msg),
                              IF ContactMessage(msg) THEN DumpContact(msg) ELSE None)]
       \/ \E payload \in ConcNewsletterBodies :
             inflight' = [inflight EXCEPT ![r] =
                 WriteRequest("/api/newsletter", "newslettersubscriber",
                              NewsletterSubscriber(payload),
                              IF NewsletterSubscriber(payload)
                              THEN DumpNewsletter(payload) ELSE None)]
    /\ UNCHANGED <<db, store, nextId, DEFAULT_SERVICES, DEFAULT_PROJECTS, DEFAULT_POSTS,
                   request, response, before, store0, acked>>

Call(r) ==
    /\ inflight[r].pc = "ready"
    /\ \E outcome \in Outcomes :
          LET c == call_step(inflight[r], outcome)
          IN /\ Written(c.store) <= MaxWrites
             /\ inflight' = [inflight EXCEPT ![r] = c.req]
             /\ store' = c.store
             /\ nextId' = c.nextId
    /\ UNCHANGED <<db, DEFAULT_SERVICES, DEFAULT_PROJECTS, DEFAULT_POSTS,
                   request, response, before, store0, acked>>

Respond(r) ==
    /\ inflight[r].pc = "called"
    /\ inflight' = [inflight EXCEPT ![r] = respond_step(inflight[r])]
    /\ UNCHANGED <<db, store, nextId, DEFAULT_SERVICES, DEFAULT_PROJECTS, DEFAULT_POSTS,
                   request, response, before, store0, acked>>

NextConc ==
    \/ \E r \in ReqIds : Arrive(r)
    \/ \E r \in ReqIds : Call(r)
    \/ \E r \in ReqIds : Respond(r)

SpecConc == Init /\ [][NextConc]_vars


\* ------------------------------------------------------------- properties
ReadPaths == {e.endpoint : e \in ReadEndpoints}
WritePaths == {"/api/contact", "/api/newsletter"}
OtherPaths == {"/", "/api/hello", "/test"}

IsRead == request.endpoint \in ReadPaths
IsWrite == request.endpoint \in WritePaths

\* the fallback lists as the source text gives them
FixedFallback(coll) ==
    CASE coll = "service" -> SeedServices
      [] coll = "project" -> SeedProjects
      [] coll = "blogpost" -> SeedPosts
      [] OTHER -> SampleTestimonials

IsPrefix(s, t) == Len(s) <= Len(t) /\ SubSeq(t, 1, Len(s)) = s

\* C1: a read whose fetch raised, or whose collection held no record, is
\* answered with success and exactly the fixed fallback list of its kind,
\* the same list in both cases.
C1_FallbackOnEmptyOrError ==
    (IsRead /\ (request.res.raised \/ Len(before[request.coll]) = 0)) =>
        /\ response.status = 200
        /\ response.body.items = FixedFallback(request.coll)

\* C1 witness: a fetch raised on a collection that holds records, and the
\* fallback of that kind was served.
C1_Witness ==
    /\ IsRead /\ db = "handle" /\ request.res.raised
    /\ Len(before[request.coll]) > 0
    /\ response.body.items = FixedFallback(request.coll)

\* C2: a read whose fetch returned N > 0 records answers with exactly those N
\* records in order, each with a string id derived from its "_id", without
\* "_id", and with every other field unchanged.
C2_StoredRecordsReturned ==
    (IsRead /\ ~request.res.raised /\ Len(before[request.coll]) > 0) =>
        LET docs == before[request.coll]
            items == response.body.items
        IN /\ response.status = 200
           /\ Len(items) = Len(docs)
           /\ \A i \in 1..Len(docs) :
                 /\ DOMAIN items[i] = (DOMAIN docs[i] \ {"_id"}) \cup {"id"}
                 /\ items[i]["id"] = str(docs[i]["_id"])
                 /\ Len(items[i]["id"]) > 0
                 /\ \A f \in DOMAIN docs[i] \ {"_id", "id"} : items[i][f] = docs[i][f]

\* C2 witness: two stored records were returned, the second of which had a
\* field of its own called "id".
C2_Witness ==
    /\ IsRead /\ ~request.res.raised
    /\ Len(before[request.coll]) = 2
    /\ "id" \in DOMAIN before[request.coll][2]
    /\ Len(response.body.items) = 2
    /\ response.body.items[2]["id"] = str(before[request.coll][2]["_id"])

\* C3: a valid write on a reachable store is answered {ok: true, id} with a
\* non-empty id, and ever after the collection holds a record under that id
\* whose email is the submitted address (as validated: domain in lower case).
C3_AcknowledgedWritesPersist ==
    /\ (IsWrite /\ request.calls = 1 /\ ~request.res.raised) =>
          /\ response.status = 200 /\ response.body.ok
          /\ Len(response.body.id) > 0
          /\ \E a \in acked : a.coll = request.coll /\ a.id = response.body.id
                              /\ a.email = request.body["email"]
    /\ \A a \in acked :
          /\ Len(a.id) > 0
          /\ \E i \in 1..Len(store[a.coll]) :
                /\ store[a.coll][i]["email"] = NormalizeEmail(a.email)
                /\ str(store[a.coll][i]["_id"]) = a.id

\* C3 witness: a subscription with an upper-case domain was acknowledged, a
\* later write was stored after it, and another request has been served since.
C3_Witness ==
    /\ \E a \in acked : a.coll = "newslettersubscriber" /\ a.email = Email2
                        /\ a.id = str(1)
    /\ Written(store) = 2
    /\ request.endpoint = "/api/content/services"

\* whether the schema of the endpoint accepts the body
Acceptable(endpoint, body) ==
    /\ Has(body, "email") /\ EmailStr(body["email"])
    /\ endpoint = "/api/contact" => Has(body, "name") /\ Has(body, "message")

\* C4: a write whose body lacks a required field or carries a malformed email
\* is answered with a client error, no store call is made for it and the store
\* is as it was.
C4_InvalidBodyRejected ==
    (IsWrite /\ ~Acceptable(request.endpoint, request.body)) =>
        /\ response.status = 422
        /\ request.calls = 0
        /\ store = before

\* C4 witness: a contact message with a malformed email was rejected while the
\* store already held written records.
C4_Witness ==
    /\ request.endpoint = "/api/contact"
    /\ Has(request.body, "email") /\ ~EmailStr(request.body["email"])
    /\ response.status = 422
    /\ db = "handle" /\ Written(store) > 0

\* C5: a valid write whose insert raised is answered 500 with the exception's
\* whole text as detail, is never acknowledged, and adds no record.
C5_FailedInsertSurfaced ==
    (IsWrite /\ request.calls = 1 /\ request.res.raised) =>
        /\ response.status = 500
        /\ response.body.detail = request.res.msg
        /\ store = before
        /\ \A a \in acked : \E i \in 1..Len(before[a.coll]) :
                               str(before[a.coll][i]["_id"]) = a.id

\* C5 witness: an insert of a contact message failed on a store that has a
\* handle, with a text longer than any truncation used elsewhere.
C5_Witness ==
    /\ request.endpoint = "/api/contact" /\ request.calls = 1
    /\ db = "handle" /\ request.res.raised
    /\ Len(request.res.msg) > ErrLimit
    /\ response.status = 500

\* C6: no record is ever changed or removed; a request changes the store only
\* by a successful write appending one record to its own collection; the
\* content collections never change.
C6_StoreOnlyGrowsByWrites ==
    /\ \A c \in ContentCollections : store[c] = store0[c]
    /\ \A c \in Collections : IsPrefix(store0[c], store[c]) /\ IsPrefix(before[c], store[c])
    /\ (request.endpoint \in ReadPaths \cup OtherPaths) => store = before
    /\ store # before =>
          /\ IsWrite /\ response.status = 200
          /\ Len(store[request.coll]) = Len(before[request.coll]) + 1
          /\ \A c \in Collections \ {request.coll} : store[c] = before[c]

\* C6 witness: after two writes, a read of a content collection that holds
\* records left the store as it was.
C6_Witness ==
    /\ IsRead /\ ~request.res.raised
    /\ Len(store[request.coll]) > 0
    /\ Written(store) = 2
    /\ store = before

DiagFields == {"backend", "database", "error", "database_url", "database_name",
               "connection_status", "collections"}

\* C7: GET /test answers with a successful diagnostics object whatever the
\* store handle, db.name and list_collection_names() do.
C7_DiagnosticsNeverFails ==
    request.endpoint = "/test" =>
        /\ response.status = 200
        /\ DOMAIN response.body = DiagFields
        /\ response.body.backend = "Running"

\* C7 witness: reading db.name raised and the diagnostics object was returned.
C7_Witness ==
    /\ request.endpoint = "/test" /\ db = "handle"
    /\ request.name.raised
    /\ response.status = 200

OkNames == {n \in NameReads : ~n.raised}
OkLists == {l \in ListReads : ~l.raised}

\* the fields a sub-check fills in, and where its failure is reported
OwnFields(check) ==
    IF check = "name" THEN {"database_name", "database", "error"}
    ELSE {"collections", "database", "error"}

\* the fields the claim lists: store-handle status, connection string set,
\* database name, collection names
ClaimedFields == {"database", "database_url", "database_name", "collections"}

\* C8 as claimed: when a sub-check raised, every field that is not its own has
\* the value it would have had if that sub-check had succeeded.
C8_EverySubCheckIsolated ==
    (request.endpoint = "/test" /\ db = "handle") =>
        /\ (request.list.raised /\ ~request.name.raised) =>
              \A l \in OkLists : \A f \in ClaimedFields \ OwnFields("list") :
                 response.body[f] = test_response(request.url, request.name, l).body[f]
        /\ request.name.raised =>
              \E n \in OkNames : \A f \in ClaimedFields \ OwnFields("name") :
                 response.body[f] = test_response(request.url, n, request.list).body[f]

\* C8 amended: a failure listing the collections is reported in the database
\* status, leaves the collection list empty and leaves database_url,
\* database_name and connection_status as they are when the listing succeeds;
\* a failure reading db.name is reported in the database status too, keeps
\* database_url, and leaves database_name, connection_status and collections
\* at their defaults, the listing not being attempted.
C8_ListingFailureIsolated ==
    (request.endpoint = "/test" /\ db = "handle") =>
        /\ (request.list.raised /\ ~request.name.raised) =>
              /\ \A l \in OkLists : \A f \in {"backend", "database_url", "database_name",
                                              "connection_status"} :
                    response.body[f] = test_response(request.url, request.name, l).body[f]
              /\ response.body.database = "Connected but Error"
              /\ response.body.error = Take(request.list.msg, ErrLimit)
              /\ response.body.collections = <<>>
        /\ request.name.raised =>
              /\ \A n \in OkNames : \A f \in {"backend", "database_url"} :
                    response.body[f] = test_response(request.url, n, request.list).body[f]
              /\ response.body.database = "Error"
              /\ response.body.error = Take(request.name.msg, ErrLimit)
              /\ response.body.database_name = None
              /\ response.body.connection_status = "Not Connected"
              /\ response.body.collections = <<>>

\* C8 witness: listing the collections raised after db.name was read.
C8_Witness ==
    /\ request.endpoint = "/test" /\ db = "handle"
    /\ request.list.raised /\ ~request.name.raised
    /\ request.name.value = "appdb" /\ request.url
    /\ response.body.database_name = "appdb"
    /\ response.body.connection_status = "Connected"

Slugs(items) == [i \in 1..Len(items) |-> items[i].slug]

\* C9: whenever the service collection is empty, GET /api/content/services
\* answers with the five seeded services in their order, and the seed list is
\* never altered.
C9_SeededServices ==
    /\ DEFAULT_SERVICES = SeedServices
    /\ (request.endpoint = "/api/content/services" /\ Len(before["service"]) = 0) =>
          /\ response.status = 200
          /\ Slugs(response.body.items) =
                <<"software-web-development", "cybersecurity-network",
                  "digital-transformation", "cloud-services", "data-analytics">>
          /\ response.body.items = SeedServices

\* C9 witness: the seeded services were served by a reachable store that is
\* empty of services, after other requests had written records.
C9_Witness ==
    /\ request.endpoint = "/api/content/services"
    /\ db = "handle" /\ ~request.res.raised
    /\ Len(before["service"]) = 0
    /\ Written(store) > 0
    /\ Len(response.body.items) = 5

\* the response of the same request handled on its own, against the store as
\* it was at the request's store call
AloneResponse(q) ==
    IF q.kind = "read"
    THEN LET res == get_documents(q.snap, q.coll, q.outcome)
         IN IF ~res.raised /\ Len(res.docs) > 0
            THEN [status |-> 200, body |-> [items |-> convert_docs(q.snap[q.coll])]]
            ELSE [status |-> 200, body |-> [items |-> FixedFallback(q.coll)]]
    ELSE LET res == create_document(q.snap, q.snapId, q.coll, q.data, q.outcome)
         IN IF res.raised
            THEN [status |-> 500, body |-> [detail |-> res.msg]]
            ELSE [status |-> 200, body |-> [ok |-> TRUE, id |-> str(q.snapId)]]

\* C10: under every interleaving a request makes at most one store call (none
\* when its body is rejected), and an answered request's response is the one
\* it would get on its own against the store at the moment of that call: the
\* fallback or a 500 on the first failure.
C10_OneCallPerRequest ==
    \A r \in ReqIds :
        LET q == inflight[r]
        IN q.pc # "idle" =>
              /\ q.calls <= 1
              /\ q.pc = "ready" => q.calls = 0
              /\ q.pc = "called" => q.calls = 1
              /\ (q.pc = "done" /\ ~q.valid) => q.calls = 0 /\ q.resp.status = 422
              /\ (q.pc = "done" /\ q.valid) =>
                    /\ q.calls = 1
                    /\ q.resp = AloneResponse(q)

\* C10 witness: request 1 inserted and has not answered yet; request 2 then
\* inserted into the same collection and was acknowledged with its own id.
C10_Witness ==
    /\ inflight[1].pc = "called" /\ inflight[1].kind = "write"
    /\ ~inflight[1].res.raised
    /\ inflight[2].pc = "done" /\ inflight[2].valid
    /\ inflight[2].coll = inflight[1].coll
    /\ Len(inflight[2].snap[inflight[2].coll]) = Len(inflight[1].snap[inflight[1].coll]) + 1
    /\ inflight[2].resp.status = 200

====
